---------------------------- MODULE Spec2Model ----------------------------
(***************************************************************************)
(* ManusAgentTool (src/app/tool/manus_agent_tool.py): the tool adapter     *)
(* `execute`, the summarizer `_extract_summary_from_result` and the        *)
(* streaming driver `_run_with_streaming`, an async generator.             *)
(*                                                                         *)
(* The agent (Manus) is an external collaborator: its constructor, run(),  *)
(* think() and act() are modelled by their contract (they return or raise, *)
(* may set the handle's state to finished and may append to its log).      *)
(* "Raise" means raising a Python Exception; BaseException-only signals    *)
(* (task cancellation, GeneratorExit) are outside the model.               *)
(***************************************************************************)
EXTENDS Integers, Sequences, FiniteSets, TLC

(***************************************************************************)
(* Bounds of the model.                                                    *)
(***************************************************************************)
\* largest max_steps argument an invocation passes to a talkative agent
MaxSteps == 2
\* the step budget of the long runs (with an agent that logs nothing)
LongSteps == 5
\* the handle's default step budget (Manus.max_steps when max_steps is None)
DefaultMaxSteps == 2
\* the longest message log the agent builds in one run (it starts at 1)
MaxLog == 2
\* the largest max_steps argument in the two-invocation specification
ConcSteps == 1

\* the two invocations the model follows
Inv == {1, 2}
\* the references of the Manus objects they can construct (one each)
Refs == 1..Cardinality(Inv)

\* Optional[T]: None is the empty set, a value v is {v}
None == {}
Some(v) == {v}
The(opt) == CHOOSE v \in opt : TRUE

(***************************************************************************)
(* Strings.  Python's s[:n] and the "..." suffix of the previews.          *)
(***************************************************************************)
Prefix(s, n) == IF Len(s) > n THEN SubSeq(s, 1, n) ELSE s

\* the truncation without its "..." suffix
TruncateNoEllipsis(s, n) == Prefix(s, n)

\* `x[:n] + "..." if len(x) > n else x`
Truncate(s, n) == IF Len(s) > n THEN Prefix(s, n) \o "..." ELSE s

\* Python's `needle in hay` for strings
Contains(hay, needle) ==
    \E i \in 1..(Len(hay) - Len(needle) + 1) :
        SubSeq(hay, i, i + Len(needle) - 1) = needle

RECURSIVE Rep(_, _)
Rep(c, n) ==
    IF n <= 0 THEN ""
    ELSE LET half == Rep(c, n \div 2)
         IN  half \o half \o (IF n % 2 = 1 THEN c ELSE "")

\* str(n) for a small natural number
Digits == <<"0", "1", "2", "3", "4", "5", "6", "7", "8", "9">>
RECURSIVE IntStr(_)
IntStr(n) == IF n < 10 THEN Digits[n + 1] ELSE IntStr(n \div 10) \o Digits[(n % 10) + 1]

(***************************************************************************)
(* JSON values, as json.loads builds them: str, number, None, list, dict.  *)
(* A number is kept as its literal text; a dict is its sequence of         *)
(* key/value pairs in document order.                                      *)
(***************************************************************************)
JStr(s) == [t |-> "str", s |-> s, items |-> <<>>]
JNum(lit) == [t |-> "num", s |-> lit, items |-> <<>>]
JNull == [t |-> "null", s |-> "", items |-> <<>>]
JList(xs) == [t |-> "list", s |-> "", items |-> xs]
JObj(kvs) == [t |-> "obj", s |-> "", items |-> kvs]
KV(k, v) == [k |-> k, v |-> v]

RECURSIVE Dumps(_)
RECURSIVE DumpsItems(_, _, _)
\* the elements i.. of a list or dict, separated by ", "
DumpsItems(xs, i, isObj) ==
    IF i > Len(xs) THEN ""
    ELSE (IF i > 1 THEN ", " ELSE "")
         \o (IF isObj THEN "\"" \o xs[i].k \o "\": " \o Dumps(xs[i].v)
                      ELSE Dumps(xs[i]))
         \o DumpsItems(xs, i + 1, isObj)

\* the document text of a JSON value (json.dumps with default separators)
Dumps(v) ==
    CASE v.t = "str" -> "\"" \o v.s \o "\""
      [] v.t = "num" -> v.s
      [] v.t = "null" -> "null"
      [] v.t = "list" -> "[" \o DumpsItems(v.items, 1, FALSE) \o "]"
      [] v.t = "obj" -> "{" \o DumpsItems(v.items, 1, TRUE) \o "}"

\* dict operations: `key in d`, `d[key]`, `d.get(key, default)`, `len(d)`
HasKey(d, key) == \E i \in 1..Len(d.items) : d.items[i].k = key
Lookup(d, key) ==
    d.items[CHOOSE i \in 1..Len(d.items) : d.items[i].k = key].v
GetOr(d, key, default) == IF HasKey(d, key) THEN Lookup(d, key) ELSE default

\* Python truthiness of a JSON value
Truthy(v) ==
    CASE v.t = "str" -> v.s # ""
      [] v.t = "num" -> v.s # "0"
      [] v.t = "null" -> FALSE
      [] v.t \in {"list", "obj"} -> v.items # <<>>

RECURSIVE PyRepr(_)
RECURSIVE PyReprItems(_, _, _)
PyReprItems(xs, i, isObj) ==
    IF i > Len(xs) THEN ""
    ELSE (IF i > 1 THEN ", " ELSE "")
         \o (IF isObj THEN "'" \o xs[i].k \o "': " \o PyRepr(xs[i].v)
                      ELSE PyRepr(xs[i]))
         \o PyReprItems(xs, i + 1, isObj)
\* repr(v), as str() of a container shows its elements
PyRepr(v) ==
    CASE v.t = "str" -> "'" \o v.s \o "'"
      [] v.t = "num" -> v.s
      [] v.t = "null" -> "None"
      [] v.t = "list" -> "[" \o PyReprItems(v.items, 1, FALSE) \o "]"
      [] v.t = "obj" -> "{" \o PyReprItems(v.items, 1, TRUE) \o "}"
\* str(v), what an f-string puts in place of {v}
PyStr(v) == IF v.t = "str" THEN v.s ELSE PyRepr(v)

(***************************************************************************)
(* The documents json.loads knows in this model.  A raw result parses to   *)
(* the document whose text it is, and is invalid JSON otherwise.           *)
(***************************************************************************)
Flight(price, duration, stops) ==
    JObj(<<KV("price", price), KV("duration", duration), KV("stops", stops)>>)

\* a flight search with a nonstop flight
FlightDoc ==
    JObj(<<KV("flight_search_details",
              JObj(<<KV("route", JStr("SFO-JFK")), KV("dates", JStr("May 1"))>>)),
           KV("available_flights",
              JList(<<Flight(JStr("$200"), JStr("9h"), JStr("1 stop")),
                      Flight(JStr("$350"), JStr("5h"), JStr("Nonstop"))>>))>>)
\* flight_search_details is a list, not a mapping
FlightBadDetails == JObj(<<KV("flight_search_details", JList(<<>>))>>)
\* an entry of available_flights is a string
FlightBadEntry ==
    JObj(<<KV("flight_search_details", JObj(<<>>)),
           KV("available_flights", JList(<<JStr("x")>>))>>)
\* an entry's stops field is a number
FlightBadStops ==
    JObj(<<KV("flight_search_details", JObj(<<>>)),
           KV("available_flights",
              JList(<<Flight(JNull, JStr("5h"), JNum("0"))>>))>>)
\* available_flights is null
FlightNoList ==
    JObj(<<KV("flight_search_details", JObj(<<>>)),
           KV("available_flights", JNull)>>)
\* flight_search_details alone
FlightEmpty == JObj(<<KV("flight_search_details", JObj(<<>>))>>)
ExtractedDoc ==
    JObj(<<KV("interactive_elements", JList(<<>>)), KV("url", JStr("u"))>>)
PlainDoc == JObj(<<KV("answer", JStr("42"))>>)

JsonDocs ==
    {FlightDoc, FlightBadDetails, FlightBadEntry, FlightBadStops, FlightNoList,
     FlightEmpty, ExtractedDoc, PlainDoc,
     JObj(<<KV("text", JStr(Rep("a", 138)))>>),
     JObj(<<KV("text", JStr(Rep("a", 139)))>>),
     JObj(<<>>), JList(<<JNum("1"), JNum("2")>>), JStr("done"), JNum("7"),
     JNull, JObj(<<KV("log", JStr("Final thought: all done. Terminate"))>>)}

\* texts that are not JSON
PlainTexts ==
    {"", "The task is complete.", Rep("b", 100), Rep("b", 101), "{\"answer\": ",
     "Thought: search. Final thought: book the 5h flight. Terminate now."}

\* the raw results the summarizer is applied to
RawResults == {Dumps(v) : v \in JsonDocs} \cup PlainTexts

IsJson(raw) == \E v \in JsonDocs : Dumps(v) = raw
\* json.loads(raw), for a raw that is JSON
Loads(raw) == CHOOSE v \in JsonDocs : Dumps(v) = raw

(***************************************************************************)
(* _extract_summary_from_result.  An evaluation yields [exc, val]: exc is  *)
(* "" when it returns val, and names the exception it raises otherwise.    *)
(***************************************************************************)
Ret(val) == [exc |-> "", val |-> val]
Raise(name) == [exc |-> name, val |-> ""]

\* what iterating `data.get('available_flights', [])` yields, or the exception
FlightsIter(data) ==
    LET fl == GetOr(data, "available_flights", JList(<<>>))
    IN  CASE fl.t = "list" -> [exc |-> "", items |-> fl.items]
          [] fl.t = "obj" ->
               [exc |-> "",
                items |-> [i \in 1..Len(fl.items) |-> JStr(fl.items[i].k)]]
          [] fl.t = "str" ->
               [exc |-> "",
                items |-> [i \in 1..Len(fl.s) |-> JStr(SubSeq(fl.s, i, i))]]
          [] OTHER -> [exc |-> "TypeError", items |-> <<>>]

\* next((f['price'] for f in flights if f.get('price')), 'Unknown')
RECURSIVE Cheapest(_, _)
Cheapest(fs, i) ==
    IF i > Len(fs) THEN Ret("Unknown")
    ELSE IF fs[i].t # "obj" THEN Raise("AttributeError")
    ELSE IF Truthy(GetOr(fs[i], "price", JNull))
         THEN Ret(PyStr(Lookup(fs[i], "price")))
    ELSE Cheapest(fs, i + 1)

\* 'Nonstop' in stops
NonstopIn(stops) ==
    CASE stops.t = "str" -> Ret(Contains(stops.s, "Nonstop"))
      [] stops.t = "list" ->
           Ret(\E i \in 1..Len(stops.items) : stops.items[i] = JStr("Nonstop"))
      [] stops.t = "obj" -> Ret(HasKey(stops, "Nonstop"))
      [] OTHER -> Raise("TypeError")

\* next((f"Duration: {f['duration']}" for f in flights
\*       if f.get('duration') and 'Nonstop' in f.get('stops', '')),
\*      'No nonstop flights')
RECURSIVE Fastest(_, _)
Fastest(fs, i) ==
    IF i > Len(fs) THEN Ret("No nonstop flights")
    ELSE IF fs[i].t # "obj" THEN Raise("AttributeError")
    ELSE IF ~Truthy(GetOr(fs[i], "duration", JNull)) THEN Fastest(fs, i + 1)
    ELSE LET hit == NonstopIn(GetOr(fs[i], "stops", JStr("")))
         IN  IF hit.exc # "" THEN Raise(hit.exc)
             ELSE IF hit.val THEN Ret("Duration: " \o PyStr(Lookup(fs[i], "duration")))
             ELSE Fastest(fs, i + 1)

\* lines 99-105: the flight-search synopsis
FlightSummary(data) ==
    LET fsd == GetOr(data, "flight_search_details", JObj(<<>>))
        it == FlightsIter(data)
        cheapest == Cheapest(it.items, 1)
        fastest == Fastest(it.items, 1)
    IN  IF fsd.t # "obj" THEN Raise("AttributeError")
        ELSE IF it.exc # "" THEN Raise(it.exc)
        ELSE IF cheapest.exc # "" THEN Raise(cheapest.exc)
        ELSE IF fastest.exc # "" THEN Raise(fastest.exc)
        ELSE Ret("Flight search for "
                 \o PyStr(GetOr(fsd, "route", JStr("Unknown route"))) \o ", "
                 \o PyStr(GetOr(fsd, "dates", JStr("Unknown dates")))
                 \o ". Cheapest: " \o cheapest.val \o ". " \o fastest.val)

\* lines 94-112: the body of the try block
SummaryTry(result) ==
    IF ~IsJson(result) THEN Raise("JSONDecodeError")
    ELSE LET data == Loads(result)
         IN  IF data.t = "obj" /\ HasKey(data, "flight_search_details")
             THEN FlightSummary(data)
             ELSE IF data.t = "obj"
                     /\ \E key \in {"interactive_elements", "available_flights",
                                     "flight_search"} : HasKey(data, key)
             THEN Ret("Extracted page information with "
                      \o IntStr(Len(data.items)) \o " data points")
             ELSE Ret("Result: " \o Truncate(result, 150))

\* lines 87-116: except (json.JSONDecodeError, TypeError, ValueError)
ExtractSummary(result) ==
    LET r == SummaryTry(result)
    IN  IF r.exc \in {"JSONDecodeError", "TypeError", "ValueError"}
        THEN Ret("Result: " \o Truncate(result, 100))
        ELSE r

(***************************************************************************)
(* The agent handle (Manus) and what the adapter sees of it.               *)
(***************************************************************************)
\* str(e) of an exception the agent raises
ErrMsg == "boom"

\* a log entry: whether it has role and content attributes, and its content
\* (None when the content is not a string, as for a tool-call message)
Msg(attrs, content) == [attrs |-> attrs, content |-> content]
\* Message.user_message(prompt)
UserMessage(prompt) == Msg(TRUE, Some(prompt))

\* the entries think() and act() append to the log
AgentMsgs ==
    {Msg(TRUE, Some("I will search.")), Msg(TRUE, Some(Rep("t", 301))),
     Msg(TRUE, None), Msg(FALSE, None)}

\* the results act() returns (str(result))
ActResults == {Dumps(PlainDoc), Dumps(FlightBadDetails)}
\* the results run() returns
RunResults == {Dumps(PlainDoc), "The task is complete.", Rep("b", 101)}

\* the fields of a freshly constructed Manus
NewAgent ==
    [max_steps |-> DefaultMaxSteps, current_step |-> 0, state |-> "idle",
     messages |-> <<>>]

\* a pooled agent: the first Manus object is handed out again
ConstructAgentPooled(heap) ==
    IF heap = <<>> THEN [heap |-> Append(heap, NewAgent), h |-> 1]
    ELSE [heap |-> heap, h |-> 1]

\* `agent = Manus()`: a new object on the heap, and the reference to it
ConstructAgent(heap) == [heap |-> Append(heap, NewAgent), h |-> Len(heap) + 1]

\* `if max_steps:`, which takes a max_steps of 0 for no max_steps
WithMaxStepsIfTruthy(heap, h, max_steps) ==
    IF max_steps = None \/ max_steps = Some(0) THEN heap
    ELSE [heap EXCEPT ![h].max_steps = The(max_steps)]

\* `if max_steps is not None: agent.max_steps = max_steps`
WithMaxSteps(heap, h, max_steps) ==
    IF max_steps = None THEN heap
    ELSE [heap EXCEPT ![h].max_steps = The(max_steps)]

\* seq[-1]
Last(seq) == seq[Len(seq)]

\* msgs[-k:]
LastK(msgs, k) ==
    IF Len(msgs) > k THEN SubSeq(msgs, Len(msgs) - k + 1, Len(msgs)) ELSE msgs

\* lines 185-190 and 255-262: the content of the last of the last k entries
\* that has role and content, or the default; truncated to n.  len(None)
\* raises TypeError.
Preview(msgs, k, default, n) ==
    LET last_messages == SelectSeq(LastK(msgs, k), LAMBDA m : m.attrs)
    IN  IF last_messages = <<>> THEN Ret(Truncate(default, n))
        ELSE LET content == last_messages[Len(last_messages)].content
             IN  IF content = None THEN Raise("TypeError")
                 ELSE Ret(Truncate(The(content), n))

(***************************************************************************)
(* Progress events (the JSON objects the generator yields) and ToolResult. *)
(* An absent key is None.                                                  *)
(***************************************************************************)
Event(status, step, text) ==
    [status |-> status, step |-> step, text |-> text,
     steps_summary |-> <<>>, total_steps |-> None]

\* lines 265-270
CompleteEvent(content, summary, total) ==
    [status |-> "complete", step |-> None, text |-> content,
     steps_summary |-> summary, total_steps |-> Some(total)]

\* the first three entries of the log instead of the last three
StepsSummaryFirst(summary) ==
    IF Len(summary) > 3 THEN SubSeq(summary, 1, 3) ELSE summary

\* `actions_summary[-3:] if len(actions_summary) > 3 else actions_summary`
StepsSummary(summary) == LastK(summary, 3)

\* ToolResult(output=json.dumps({...})) and ToolResult(error=...)
OutputResult(payload) == [kind |-> "output", output |-> Some(payload), error |-> ""]
ErrorResult(msg) == [kind |-> "error", output |-> None, error |-> msg]
\* no value yet, and the async generator execute returns when streaming
NoResult == [kind |-> "none", output |-> None, error |-> ""]
GeneratorResult == [kind |-> "generator", output |-> None, error |-> ""]

\* the payload with the summary as result and the raw result beside it
RunPayloadSummarized(raw) ==
    [status |-> "complete", result |-> ExtractSummary(raw).val,
     full_result |-> raw]

\* lines 75-78: the payload of the non-streaming result
RunPayload(raw) == [status |-> "complete", result |-> raw]

\* execute without its except clause: the exception reaches the caller
OnExecuteErrorReraise(e) == [kind |-> "raised", output |-> None, error |-> e]

\* lines 81-85: what execute returns when Manus() or run() raised e
OnExecuteError(e) == ErrorResult("Error running Manus agent: " \o e)

\* streaming whatever the flag says
UseStreamingAlways(a) == TRUE

\* line 63: `if streaming:`
UseStreaming(a) == a.streaming

(***************************************************************************)
(* State.  One entry per invocation i: of execute (entry "execute"), or of *)
(* _run_with_streaming called directly without an agent (entry "driver").  *)
(***************************************************************************)
VARIABLES
    pc,               \* where invocation i stands
    args,             \* its arguments: entry, prompt, streaming, max_steps
    log_cap,          \* the longest log the agent of this run builds
    act_pool,         \* the results act() of this run's agent can return
    agents,           \* the heap of Manus objects, by reference 1, 2, ...
    agent,            \* the local variable `agent`: None or a reference
    should_act,       \* the local variable `should_act`
    actions_summary,  \* the local variable `actions_summary`
    run_result,       \* the local variable `result` of execute (from run())
    result_str,       \* the local variable `result_str` of the generator
    result,           \* what execute returned
    events,           \* the events the generator has yielded, in order
    calls,            \* how often the adapter called Manus(), run(), think(), act()
    pulls,            \* how often the consumer called the generator's __anext__
    touched,          \* by reference: the invocations that used that handle
    outcomes          \* how the calls of this invocation ended, in order

vars ==
    <<pc, args, log_cap, act_pool, agents, agent, should_act, actions_summary,
      run_result, result_str, result, events, calls, pulls, touched, outcomes>>

\* prompts: empty, short, and longer than the 50 characters of the preview
Prompts == {"", "find flights", Rep("p", 51)}

OptSteps(lo, hi) == {None} \cup {Some(n) : n \in lo..hi}

Args(entry, prompt, streaming, max_steps) ==
    [entry |-> entry, prompt |-> prompt, streaming |-> streaming,
     max_steps |-> max_steps]

\* a call with its environment: the arguments, the agent's log bound and the
\* results its act() can return.  Every entry, mode, budget and log bound
\* with one prompt; every prompt with the budgets 0 and 1; the long run; and
\* the one-step run whose act() returns any of the raw results.
Scenarios ==
    {[args |-> Args(e, "find flights", st, ms), cap |-> c, pool |-> ActResults] :
        e \in {"execute", "driver"}, st \in BOOLEAN,
        ms \in OptSteps(-1, MaxSteps), c \in 1..MaxLog}
    \cup {[args |-> Args(e, p, st, Some(n)), cap |-> 1, pool |-> ActResults] :
            e \in {"execute", "driver"}, p \in Prompts, st \in BOOLEAN,
            n \in 0..1}
    \cup {[args |-> Args("execute", "find flights", TRUE, Some(LongSteps)),
           cap |-> 1, pool |-> ActResults]}
    \cup {[args |-> Args("execute", "summarize", TRUE, Some(1)),
           cap |-> 1, pool |-> RawResults]}

\* a direct call of the driver is always streaming
WellFormed(sc) == sc.args.entry = "driver" => sc.args.streaming

ConcScenarios ==
    {[args |-> Args(e, "find flights", st, ms), cap |-> 1, pool |-> ActResults] :
        e \in {"execute", "driver"}, st \in BOOLEAN,
        ms \in {Some(n) : n \in 0..ConcSteps}}

NoCalls == [ctor |-> 0, run |-> 0, think |-> 0, act |-> 0]
Absent == [args |-> Args("execute", "", FALSE, None), cap |-> 1, pool |-> {}]

\* the state in which the invocations of `sc` have been called and none has run
InitWith(sc, present) ==
    /\ pc = [i \in Inv |->
               IF i \notin present THEN "absent"
               ELSE IF sc[i].args.entry = "driver" THEN "gen_new" ELSE "start"]
    /\ args = [i \in Inv |-> sc[i].args]
    /\ log_cap = [i \in Inv |-> sc[i].cap]
    /\ act_pool = [i \in Inv |-> sc[i].pool]
    /\ agents = <<>>
    /\ agent = [i \in Inv |-> None]
    /\ should_act = [i \in Inv |-> FALSE]
    /\ actions_summary = [i \in Inv |-> <<>>]
    /\ run_result = [i \in Inv |-> ""]
    /\ result_str = [i \in Inv |-> ""]
    /\ result = [i \in Inv |->
                   IF i \in present /\ sc[i].args.entry = "driver"
                   THEN GeneratorResult ELSE NoResult]
    /\ events = [i \in Inv |-> <<>>]
    /\ calls = [i \in Inv |-> NoCalls]
    /\ pulls = [i \in Inv |-> 0]
    /\ touched = [h \in Refs |-> {}]
    /\ outcomes = [i \in Inv |-> <<>>]

\* one invocation
Init ==
    \E s \in {x \in Scenarios : WellFormed(x)} :
        InitWith([i \in Inv |-> IF i = 1 THEN s ELSE Absent], {1})

\* two concurrent invocations
InitConc ==
    \E s1, s2 \in {x \in ConcScenarios : WellFormed(x)} :
        InitWith([i \in Inv |-> IF i = 1 THEN s1 ELSE s2], Inv)

(***************************************************************************)
(* Helpers of the actions.                                                 *)
(***************************************************************************)
Emit(i, evs) == events' = [events EXCEPT ![i] = @ \o evs]
Goto(i, label) == pc' = [pc EXCEPT ![i] = label]
Called(i, what) == calls' = [calls EXCEPT ![i][what] = @ + 1]
Pulled(i) == pulls' = [pulls EXCEPT ![i] = @ + 1]
\* invocation i uses the handle h
Touch(i, h) == touched' = [touched EXCEPT ![h] = @ \cup {i}]
\* the end of a call of op ("ctor", "run", "think", "act") at a step: whether
\* it raised, and whether it left the handle's state finished; and the
\* exceptions of the adapter's own code ("init", "preview", "summary", "final")
Outcome(op, step, raised, finished) ==
    [op |-> op, step |-> step, raised |-> raised, finished |-> finished]
Note(i, outs) == outcomes' = [outcomes EXCEPT ![i] = @ \o outs]

\* what think() and act() may do to the handle besides returning: set state
\* to finished, and append one entry to the log (while the log bound allows)
AgentEffects(i, h) ==
    {[agents EXCEPT ![h].state = IF fin THEN "finished" ELSE @,
                    ![h].messages = @ \o new] :
        fin \in BOOLEAN,
        new \in {<<>>} \cup
                {<<m>> : m \in IF Len(agents[h].messages) < log_cap[i]
                                THEN AgentMsgs ELSE {}}}

\* lines 252-280: the completion phase, the `complete` event or the error
\* event of a failure while preparing it
FinalEvent(a, summary) ==
    LET short_content == Preview(a.messages, 3, "No final content available", 300)
    IN  IF short_content.exc # ""
        THEN Event("error", None,
                   "Error preparing final response: " \o short_content.exc)
        ELSE CompleteEvent(short_content.val, StepsSummary(summary),
                           a.current_step)

\* the loop condition with <= for <
LoopConditionOffByOne(a) ==
    a.state = "running" /\ a.current_step <= a.max_steps

\* the loop going on whatever the handle's state is
LoopConditionIgnoresState(a) == a.current_step < a.max_steps

\* line 174: the loop condition
LoopCondition(a) == a.state = "running" /\ a.current_step < a.max_steps

\* lines 174-181 and 252-280, from the top of the while loop to the next
\* suspension: either the step begins (current_step += 1, think() is called)
\* or the loop is left and the final event is yielded
LoopTop(i, heap, summary) ==
    LET h == The(agent[i])
        a == heap[h]
    IN  IF LoopCondition(a)
        THEN /\ agents' = [heap EXCEPT ![h].current_step = @ + 1]
             /\ Called(i, "think")
             /\ Goto(i, "await_think")
             /\ UNCHANGED <<events, outcomes>>
        ELSE /\ agents' = heap
             /\ Emit(i, <<FinalEvent(a, summary)>>)
             /\ Note(i, IF FinalEvent(a, summary).status = "error"
                        THEN <<Outcome("final", a.current_step, TRUE, FALSE)>>
                        ELSE <<>>)
             /\ Goto(i, "at_final")
             /\ UNCHANGED calls

(***************************************************************************)
(* execute (lines 44-85).                                                  *)
(***************************************************************************)
\* lines 55-70 (to the await of run(), or the return of the generator) and
\* lines 81-85 when Manus() raises
Execute(i) ==
    /\ pc[i] = "start"
    /\ \E constructed \in BOOLEAN :
          /\ Note(i, <<Outcome("ctor", 0, ~constructed, FALSE)>>)
          /\ calls' = [calls EXCEPT
                         ![i].ctor = @ + 1,
                         ![i].run = IF constructed /\ ~UseStreaming(args[i])
                                    THEN @ + 1 ELSE @]
          /\ IF ~constructed
             THEN /\ result' = [result EXCEPT ![i] = OnExecuteError(ErrMsg)]
                  /\ Goto(i, "returned")
                  /\ UNCHANGED <<agents, agent, touched>>
             ELSE LET new == ConstructAgent(agents)
                  IN  /\ agents' = WithMaxSteps(new.heap, new.h,
                                                args[i].max_steps)
                      /\ agent' = [agent EXCEPT ![i] = Some(new.h)]
                      /\ Touch(i, new.h)
                      /\ IF UseStreaming(args[i])
                         THEN /\ result' = [result EXCEPT ![i] = GeneratorResult]
                              /\ Goto(i, "gen_new")
                         ELSE /\ Goto(i, "await_run")
                              /\ UNCHANGED result
    /\ UNCHANGED <<args, log_cap, act_pool, result_str,
                   should_act, actions_summary, run_result,
                   events, pulls>>

\* lines 70-79: run() returns
RunReturn(i) ==
    /\ pc[i] = "await_run"
    /\ \E raw \in RunResults :
          /\ run_result' = [run_result EXCEPT ![i] = raw]
          /\ result' = [result EXCEPT ![i] = OutputResult(RunPayload(raw))]
    /\ Goto(i, "returned")
    /\ Note(i, <<Outcome("run", 0, FALSE, FALSE)>>)
    /\ UNCHANGED <<args, log_cap, act_pool, result_str,
                   agents, agent, should_act, actions_summary,
                   events, calls, pulls, touched>>

\* lines 70, 81-85: run() raises
RunRaise(i) ==
    /\ pc[i] = "await_run"
    /\ result' = [result EXCEPT ![i] = OnExecuteError(ErrMsg)]
    /\ Goto(i, "returned")
    /\ Note(i, <<Outcome("run", 0, TRUE, FALSE)>>)
    /\ UNCHANGED <<args, log_cap, act_pool, result_str,
                   agents, agent, should_act, actions_summary,
                   run_result, events, calls, pulls, touched>>

(***************************************************************************)
(* _run_with_streaming (lines 118-290), an async generator: it runs only   *)
(* while the consumer awaits __anext__, from one suspension (a yield, or   *)
(* an await of think(), act() or sleep) to the next.                       *)
(***************************************************************************)
\* InitAgent without the `return` of line 158: the generator goes on after the
\* init error event
InitAgentNoReturn(i, heap, h, outs) ==
    \E initialized \in BOOLEAN :
        IF initialized
        THEN /\ Note(i, outs)
             /\ agents' = [heap EXCEPT
                              ![h].messages = <<UserMessage(args[i].prompt)>>,
                              ![h].current_step = 0,
                              ![h].state = "running"]
             /\ Emit(i, <<Event("started", Some(0),
                                "Starting to process: '"
                                \o Truncate(args[i].prompt, 50) \o "'")>>)
             /\ Goto(i, "at_started")
        ELSE /\ Note(i, outs \o <<Outcome("init", 0, TRUE, FALSE)>>)
             /\ agents' = heap
             /\ Emit(i, <<Event("error", None,
                                "Failed to initialize agent: " \o ErrMsg)>>)
             /\ Goto(i, "at_started")

\* lines 146-167 for the handle h of heap: the init succeeds and `started`
\* is yielded, or it raises and the init error is yielded before `return`
InitAgent(i, heap, h, outs) ==
    \E initialized \in BOOLEAN :
        IF initialized
        THEN /\ Note(i, outs)
             /\ agents' = [heap EXCEPT
                              ![h].messages = <<UserMessage(args[i].prompt)>>,
                              ![h].current_step = 0,
                              ![h].state = "running"]
             /\ Emit(i, <<Event("started", Some(0),
                                "Starting to process: '"
                                \o Truncate(args[i].prompt, 50) \o "'")>>)
             /\ Goto(i, "at_started")
        ELSE /\ Note(i, outs \o <<Outcome("init", 0, TRUE, FALSE)>>)
             /\ agents' = heap
             /\ Emit(i, <<Event("error", None,
                                "Failed to initialize agent: " \o ErrMsg)>>)
             /\ Goto(i, "at_return")

\* lines 124-167: the consumer's first __anext__ starts the generator
GenStart(i) ==
    /\ pc[i] = "gen_new"
    /\ Pulled(i)
    /\ IF agent[i] = None
       THEN \E constructed \in BOOLEAN :
              /\ Called(i, "ctor")
              /\ IF ~constructed
                 THEN /\ Emit(i, <<Event("error", None,
                                         "Failed to create Manus agent: "
                                         \o ErrMsg)>>)
                      /\ Goto(i, "at_return")
                      /\ Note(i, <<Outcome("ctor", 0, TRUE, FALSE)>>)
                      /\ UNCHANGED <<agents, agent, touched>>
                 ELSE LET new == ConstructAgent(agents)
                      IN  /\ agent' = [agent EXCEPT ![i] = Some(new.h)]
                          /\ Touch(i, new.h)
                          /\ InitAgent(i, WithMaxSteps(new.heap, new.h,
                                                       args[i].max_steps),
                                       new.h,
                                       <<Outcome("ctor", 0, FALSE, FALSE)>>)
       ELSE /\ InitAgent(i, agents, The(agent[i]), <<>>)
            /\ Touch(i, The(agent[i]))
            /\ UNCHANGED <<agent, calls>>
    /\ UNCHANGED <<args, log_cap, act_pool, result_str,
                   should_act, actions_summary, run_result,
                   result>>

\* lines 167-181 (or 167-174, 252-272): resumed after `started`
ResumeStarted(i) ==
    /\ pc[i] = "at_started"
    /\ Pulled(i)
    /\ actions_summary' = [actions_summary EXCEPT ![i] = <<>>]
    /\ LoopTop(i, agents, <<>>)
    /\ Touch(i, The(agent[i]))
    /\ UNCHANGED <<args, log_cap, act_pool, result_str,
                   agent, should_act, run_result, result>>

\* lines 181-199: think() returns should_act; the `thinking` event, or the
\* step error event (line 234) when the preview raises
ThinkReturn(i) ==
    /\ pc[i] = "await_think"
    /\ \E act \in BOOLEAN, heap \in AgentEffects(i, The(agent[i])) :
          LET a == heap[The(agent[i])]
              thinking == Preview(a.messages, 2, "No content available", 150)
          IN  /\ agents' = heap
              /\ should_act' = [should_act EXCEPT ![i] = act]
              /\ Note(i, <<Outcome("think", a.current_step, FALSE,
                                   a.state = "finished")>>
                         \o IF thinking.exc # ""
                            THEN <<Outcome("preview", a.current_step, TRUE, FALSE)>>
                            ELSE <<>>)
              /\ IF thinking.exc # ""
                 THEN /\ Emit(i, <<Event("error", Some(a.current_step),
                                         thinking.exc)>>)
                      /\ Goto(i, "at_step_error")
                 ELSE /\ Emit(i, <<Event("thinking", Some(a.current_step),
                                         thinking.val)>>)
                      /\ Goto(i, "at_thinking")
    /\ Touch(i, The(agent[i]))
    /\ UNCHANGED <<args, log_cap, act_pool, result_str,
                   agent, actions_summary, run_result, result,
                   calls, pulls>>

\* lines 181, 230-239: think() raises; the step error event
ThinkRaise(i) ==
    /\ pc[i] = "await_think"
    /\ Emit(i, <<Event("error", Some(agents[The(agent[i])].current_step),
                       ErrMsg)>>)
    /\ Goto(i, "at_step_error")
    /\ Note(i, <<Outcome("think", agents[The(agent[i])].current_step, TRUE,
                         FALSE)>>)
    /\ Touch(i, The(agent[i]))
    /\ UNCHANGED <<args, log_cap, act_pool, result_str,
                   agents, agent, should_act, actions_summary,
                   run_result, result, calls, pulls>>

\* ResumeThinking as a step of a driver that runs ahead of its consumer: it
\* goes on from the `thinking` event without an __anext__ of the consumer
ResumeThinkingUnpulled(i) ==
    /\ pc[i] = "at_thinking"
    /\ IF should_act[i]
       THEN /\ Called(i, "act")
            /\ Goto(i, "await_act")
       ELSE /\ Goto(i, "sleeping")
            /\ UNCHANGED calls
    /\ UNCHANGED <<args, log_cap, act_pool, result_str,
                   agents, agent, should_act, actions_summary,
                   run_result, result, events, pulls, touched, outcomes>>

\* lines 199-205 (or 199-245): resumed after `thinking`
ResumeThinking(i) ==
    /\ pc[i] = "at_thinking"
    /\ Pulled(i)
    /\ IF should_act[i]
       THEN /\ Called(i, "act")
            /\ Goto(i, "await_act")
       ELSE /\ Goto(i, "sleeping")
            /\ UNCHANGED calls
    /\ UNCHANGED <<args, log_cap, act_pool, result_str,
                   agents, agent, should_act, actions_summary,
                   run_result, result, events, touched, outcomes>>

\* lines 205-220: act() returns; the summary, the log entry and the `acting`
\* event, or the act error event (line 223) when the summarizer raises
ActReturn(i) ==
    /\ pc[i] = "await_act"
    /\ \E raw \in act_pool[i], heap \in AgentEffects(i, The(agent[i])) :
          LET a == heap[The(agent[i])]
              summary == ExtractSummary(raw)
          IN  /\ agents' = heap
              /\ result_str' = [result_str EXCEPT ![i] = raw]
              /\ Note(i, <<Outcome("act", a.current_step, FALSE,
                                   a.state = "finished")>>
                         \o IF summary.exc # ""
                            THEN <<Outcome("summary", a.current_step, TRUE, FALSE)>>
                            ELSE <<>>)
              /\ IF summary.exc # ""
                 THEN /\ Emit(i, <<Event("error", Some(a.current_step),
                                         "Act error: " \o summary.exc)>>)
                      /\ UNCHANGED actions_summary
                 ELSE /\ actions_summary' =
                            [actions_summary EXCEPT ![i] =
                               Append(@, "Step " \o IntStr(a.current_step)
                                         \o ": " \o summary.val)]
                      /\ Emit(i, <<Event("acting", Some(a.current_step),
                                         summary.val)>>)
    /\ Goto(i, "at_act_event")
    /\ Touch(i, The(agent[i]))
    /\ UNCHANGED <<args, log_cap, act_pool, agent, should_act, run_result,
                   result, calls, pulls>>

\* ActRaise with the note the step error handler writes (line 240): the
\* failure of act() gets an entry in the action log
ActRaiseLogged(i) ==
    /\ pc[i] = "await_act"
    /\ Emit(i, <<Event("error", Some(agents[The(agent[i])].current_step),
                       "Act error: " \o ErrMsg)>>)
    /\ actions_summary' =
          [actions_summary EXCEPT ![i] =
             Append(@, "Step " \o IntStr(agents[The(agent[i])].current_step)
                       \o ": Error - " \o ErrMsg)]
    /\ Goto(i, "at_act_event")
    /\ Note(i, <<Outcome("act", agents[The(agent[i])].current_step, TRUE,
                         FALSE)>>)
    /\ Touch(i, The(agent[i]))
    /\ UNCHANGED <<args, log_cap, act_pool, result_str,
                   agents, agent, should_act,
                   run_result, result, calls, pulls>>

\* lines 205, 221-228: act() raises; the act error event
ActRaise(i) ==
    /\ pc[i] = "await_act"
    /\ Emit(i, <<Event("error", Some(agents[The(agent[i])].current_step),
                       "Act error: " \o ErrMsg)>>)
    /\ Goto(i, "at_act_event")
    /\ Note(i, <<Outcome("act", agents[The(agent[i])].current_step, TRUE,
                         FALSE)>>)
    /\ Touch(i, The(agent[i]))
    /\ UNCHANGED <<args, log_cap, act_pool, result_str,
                   agents, agent, should_act, actions_summary,
                   run_result, result, calls, pulls>>

\* ResumeActEvent setting state to finished after an act error event, as the
\* handler of the step error does (lines 240-241)
ResumeActEventAbort(i) ==
    /\ pc[i] = "at_act_event"
    /\ Pulled(i)
    /\ Goto(i, "sleeping")
    /\ agents' = IF Last(events[i]).status = "error"
                 THEN [agents EXCEPT ![The(agent[i])].state = "finished"]
                 ELSE agents
    /\ UNCHANGED <<args, log_cap, act_pool, result_str,
                   agent, should_act, actions_summary,
                   run_result, result, events, calls, touched, outcomes>>

\* lines 220-245 and 228-245: resumed after `acting` or the act error event
ResumeActEvent(i) ==
    /\ pc[i] = "at_act_event"
    /\ Pulled(i)
    /\ Goto(i, "sleeping")
    /\ UNCHANGED <<args, log_cap, act_pool, result_str,
                   agents, agent, should_act, actions_summary,
                   run_result, result, events, calls, touched, outcomes>>

\* ResumeStepError without `agent.state = AgentState.FINISHED` (line 241)
ResumeStepErrorKeepsRunning(i) ==
    /\ pc[i] = "at_step_error"
    /\ Pulled(i)
    /\ LET h == The(agent[i])
           error_msg == Last(events[i]).text
       IN  /\ actions_summary' =
                 [actions_summary EXCEPT ![i] =
                    Append(@, "Step " \o IntStr(agents[h].current_step)
                              \o ": Error - " \o error_msg)]
           /\ Touch(i, h)
    /\ Goto(i, "sleeping")
    /\ UNCHANGED <<args, log_cap, act_pool, result_str,
                   agents, agent, should_act, run_result,
                   result, events, calls, outcomes>>

\* lines 239-245: resumed after the step error event
ResumeStepError(i) ==
    /\ pc[i] = "at_step_error"
    /\ Pulled(i)
    /\ LET h == The(agent[i])
           error_msg == Last(events[i]).text
       IN  /\ actions_summary' =
                 [actions_summary EXCEPT ![i] =
                    Append(@, "Step " \o IntStr(agents[h].current_step)
                              \o ": Error - " \o error_msg)]
           /\ agents' = [agents EXCEPT ![h].state = "finished"]
           /\ Touch(i, h)
    /\ Goto(i, "sleeping")
    /\ UNCHANGED <<args, log_cap, act_pool, result_str,
                   agent, should_act, run_result, result,
                   events, calls, outcomes>>

\* lines 245-250, then 174-181 or 252-272: the sleep is over.  `break` on
\* state finished leaves the loop as the loop condition does.
SleepDone(i) ==
    /\ pc[i] = "sleeping"
    /\ LoopTop(i, agents, actions_summary[i])
    /\ Touch(i, The(agent[i]))
    /\ UNCHANGED <<args, log_cap, act_pool, result_str,
                   agent, should_act, actions_summary,
                   run_result, result, pulls>>

\* lines 138, 158, 273, 280: resumed after the last event, the generator
\* ends (the consumer's __anext__ raises StopAsyncIteration)
GenEnd(i) ==
    /\ pc[i] \in {"at_final", "at_return"}
    /\ Pulled(i)
    /\ Goto(i, "gen_done")
    /\ UNCHANGED <<args, log_cap, act_pool, result_str,
                   agents, agent, should_act, actions_summary,
                   run_result, result, events, calls, touched, outcomes>>

\* the steps of invocation i
Step(i) ==
        \/ Execute(i)
        \/ RunReturn(i)
        \/ RunRaise(i)
        \/ GenStart(i)
        \/ ResumeStarted(i)
        \/ ThinkReturn(i)
        \/ ThinkRaise(i)
        \/ ResumeThinking(i)
        \/ ActReturn(i)
        \/ ActRaise(i)
        \/ ResumeActEvent(i)
        \/ ResumeStepError(i)
        \/ SleepDone(i)
        \/ GenEnd(i)

Next == \E i \in Inv : Step(i)

Spec == Init /\ [][Next]_vars

\* every call of the agent returns or raises, and the consumer keeps
\* awaiting __anext__
FairSpec == Init /\ [][Next]_vars /\ \A i \in Inv : WF_vars(Step(i))

SpecConc == InitConc /\ [][Next]_vars

(***************************************************************************)
(* Properties.                                                             *)
(***************************************************************************)
\* the invocations that stream, and those whose generator is exhausted
Streams(i) == pc[i] # "absent" /\ args[i].streaming
Done(i) == pc[i] = "gen_done"

\* the error event of an act() failure (line 223), of a failure in the think
\* phase of a step (line 234), and of a failure outside the steps (lines 133,
\* 153, 276), which carries no step
IsActError(e) ==
    e.status = "error" /\ e.step # None /\ Prefix(e.text, 11) = "Act error: "
IsStepError(e) == e.status = "error" /\ e.step # None /\ ~IsActError(e)
IsFatalError(e) == e.status = "error" /\ e.step = None
IsComplete(e) == e.status = "complete"

\* C1 as stated: once a `complete` event, or an error event of a think()-phase,
\* construction, init or completion failure, has been emitted, no further
\* event is emitted in that run.
C1_TerminalEventIsLast ==
    \A i \in Inv : \A k \in 1..Len(events[i]) :
        (IsComplete(events[i][k]) \/ IsFatalError(events[i][k])
         \/ IsStepError(events[i][k]))
        => k = Len(events[i])

\* C1 amended: a `complete` event and an error event of a construction, init
\* or completion failure are last in their run, and a run that has ended has
\* exactly one of them, as its last event; the error event of a think()-phase
\* failure is followed by at most one event, which is that final event.
C1_ExactlyOneFinalEvent ==
    \A i \in Inv :
        LET evs == events[i]
            final == {k \in 1..Len(evs) :
                        IsComplete(evs[k]) \/ IsFatalError(evs[k])}
        IN  /\ \A k \in final : k = Len(evs)
            /\ \A k \in 1..Len(evs) :
                  IsStepError(evs[k]) =>
                      /\ k >= Len(evs) - 1
                      /\ k = Len(evs) - 1 => Len(evs) \in final
            /\ Done(i) => final = {Len(evs)} /\ evs # <<>>

\* a run that has ended with `complete` right after a think()-phase error event
C1_Witness ==
    \E i \in Inv :
        /\ Done(i) /\ Len(events[i]) >= 2
        /\ IsComplete(Last(events[i]))
        /\ IsStepError(events[i][Len(events[i]) - 1])

\* the step budget of invocation i: max_steps, or the handle's default
Budget(i) ==
    IF args[i].max_steps = None THEN DefaultMaxSteps ELSE The(args[i].max_steps)
Max(a, b) == IF a >= b THEN a ELSE b

\* C2: under fairness every streaming run ends (its generator is exhausted),
\* and it begins (calls think()) at most max(max_steps, 0) times, one step per
\* increment of current_step.
C2_TerminatesWithinBudget ==
    /\ \A i \in Inv : (pc[i] = "gen_new") ~> Done(i)
    /\ [](\A i \in Inv :
            /\ calls[i].think <= Max(Budget(i), 0)
            /\ agent[i] # None /\ events[i] # <<>> /\ IsComplete(Last(events[i]))
               => calls[i].think = agents[The(agent[i])].current_step)

\* a run that has ended after using its whole budget of MaxSteps steps
C2_Witness ==
    \E i \in Inv :
        /\ Done(i)
        /\ Budget(i) = MaxSteps
        /\ calls[i].think = MaxSteps

\* the calls of invocation i that raised
Raised(i, ops) ==
    {k \in 1..Len(outcomes[i]) : outcomes[i][k].op \in ops /\ outcomes[i][k].raised}

\* C3: when Manus() or run() raises in execute, execute has returned an error
\* result that carries the exception's message, with no output (no `complete`
\* payload); the exception does not reach the caller.
C3_ExecuteReturnsError ==
    \A i \in Inv :
        args[i].entry = "execute" /\ Raised(i, {"ctor", "run"}) # {}
        => /\ pc[i] = "returned"
           /\ result[i].kind = "error"
           /\ result[i].output = None
           /\ result[i].error = "Error running Manus agent: " \o ErrMsg

\* execute has returned after run() raised
C3_Witness ==
    \E i \in Inv :
        /\ pc[i] = "returned" /\ Raised(i, {"run"}) # {}
        /\ result[i].kind = "error"

C5_ModeExclusive ==
    \A i \in Inv :
        pc[i] # "absent" /\ args[i].entry = "execute"
        => IF args[i].streaming
           THEN /\ calls[i].run = 0
                /\ result[i].kind \in {"none", "generator", "error"}
                /\ agent[i] # None => result[i].kind = "generator"
           ELSE /\ calls[i].think = 0 /\ calls[i].act = 0
                /\ events[i] = <<>> /\ pulls[i] = 0
                /\ result[i].kind \in {"none", "output", "error"}
                /\ calls[i].run = IF agent[i] # None THEN 1 ELSE 0

\* a non-streaming execute has returned the result of its one run()
C5_Witness ==
    \E i \in Inv :
        /\ args[i].entry = "execute" /\ ~args[i].streaming
        /\ pc[i] = "returned" /\ result[i].kind = "output"
        /\ calls[i].run = 1

\* the events of invocation i with this status and step
EventsAt(i, status, n) ==
    {k \in 1..Len(events[i]) :
        events[i][k].status = status /\ events[i][k].step = Some(n)}

\* the steps at which act() raised
ActFailures(i) == {outcomes[i][k].step : k \in Raised(i, {"act"})}

\* the agent of invocation i never set state to finished, and nothing but
\* act() raised
OnlyActFails(i) ==
    \A k \in 1..Len(outcomes[i]) :
        /\ ~outcomes[i][k].finished
        /\ outcomes[i][k].raised => outcomes[i][k].op = "act"

\* abort policy: the error event of each act() failure is the last event
AbortPolicy(i) ==
    \A n \in ActFailures(i) :
        /\ Cardinality(EventsAt(i, "error", n)) = 1
        /\ EventsAt(i, "error", n) = {Len(events[i])}

\* continue policy: after the one error event of each act() failure the run
\* goes through every later step of the budget, and then emits `complete`
ContinuePolicy(i) ==
    /\ \A n \in ActFailures(i) :
          /\ Cardinality(EventsAt(i, "error", n)) = 1
          /\ \A m \in (n + 1)..Budget(i) :
                \E k \in EventsAt(i, "thinking", m) :
                    \A e \in EventsAt(i, "error", n) : e < k
    /\ IsComplete(Last(events[i]))
    /\ Last(events[i]).total_steps = Some(Budget(i))

\* C6: in a streaming run that has ended, whose agent never finished and in
\* which only act() raised (as on step 2 of a 5-step budget), every act()
\* failure has exactly one error event for its step, and the run follows one
\* policy at every step: it stops after that event, or it continues through
\* the last step of the budget and then emits `complete`.
C6_OnePolicyOnActFailure ==
    \A i \in Inv :
        Done(i) /\ OnlyActFails(i) /\ ActFailures(i) # {}
        => AbortPolicy(i) \/ ContinuePolicy(i)

\* a run of LongSteps steps has ended with `complete` after act() raised on
\* step 2
C6_Witness ==
    \E i \in Inv :
        /\ Done(i) /\ OnlyActFails(i)
        /\ Budget(i) = LongSteps
        /\ 2 \in ActFailures(i)
        /\ IsComplete(Last(events[i]))
        /\ Last(events[i]).total_steps = Some(LongSteps)

\* the entries of the action log that are about step n
LogEntriesOf(i, n) ==
    {k \in 1..Len(actions_summary[i]) :
        LET head == "Step " \o IntStr(n) \o ": "
        IN  Prefix(actions_summary[i][k], Len(head)) = head}

\* C7: once think() has raised at step n, there is one error event with step
\* n, no step after n begins and neither think() nor act() is called again;
\* and once the generator has been resumed from that event, the handle's state
\* is finished and the action log ends with the one note about step n.
C7_ThinkFailureEndsSteps ==
    \A i \in Inv : \A k \in Raised(i, {"think"}) :
        LET n == outcomes[i][k].step
            a == agents[The(agent[i])]
        IN  /\ Cardinality(EventsAt(i, "error", n)) = 1
            /\ a.current_step = n
            /\ calls[i].think = n
            /\ pc[i] \notin {"await_think", "await_act"}
            /\ \A j \in (k + 1)..Len(outcomes[i]) :
                  outcomes[i][j].op \notin {"think", "act"}
            /\ \A j \in 1..Len(outcomes[i]) :
                  outcomes[i][j].op = "act" => outcomes[i][j].step < n
            /\ IF pc[i] = "at_step_error"
               THEN LogEntriesOf(i, n) = {}
               ELSE /\ a.state = "finished"
                    /\ LogEntriesOf(i, n) = {Len(actions_summary[i])}
                    /\ Last(actions_summary[i])
                         = "Step " \o IntStr(n) \o ": Error - " \o ErrMsg

\* a run has ended after think() raised at its second step
C7_Witness ==
    \E i \in Inv : \E k \in Raised(i, {"think"}) :
        /\ outcomes[i][k].step = 2
        /\ Done(i)
        /\ agents[The(agent[i])].state = "finished"

\* C8: a streaming run with max_steps = 0 or negative calls neither think()
\* nor act(), and once `started` is out its events are `started` and then
\* `complete` with total_steps = 0 and an empty steps_summary, and no other.
C8_NoStepsWithoutBudget ==
    \A i \in Inv :
        Streams(i) /\ args[i].max_steps # None /\ The(args[i].max_steps) <= 0
        => /\ calls[i].think = 0 /\ calls[i].act = 0
           /\ \A k \in 1..Len(events[i]) :
                 events[i][k].status \notin {"thinking", "acting"}
                 /\ events[i][k].step \in {None, Some(0)}
           /\ events[i] # <<>> /\ events[i][1].status = "started"
              => /\ Len(events[i]) <= 2
                 /\ Len(events[i]) = 2 =>
                       /\ IsComplete(events[i][2])
                       /\ events[i][2].total_steps = Some(0)
                       /\ events[i][2].steps_summary = <<>>
                 /\ Done(i) => Len(events[i]) = 2

\* a run with a negative max_steps has ended after two events
C8_Witness ==
    \E i \in Inv :
        /\ Done(i)
        /\ args[i].max_steps # None /\ The(args[i].max_steps) < 0
        /\ Len(events[i]) = 2
        /\ events[i][1].status = "started" /\ IsComplete(events[i][2])

\* the streaming run of invocation i has initialized its handle
InRun(i) == Streams(i) /\ agent[i] # None /\ events[i] # <<>>

\* current_step of no handle decreases in a step
StepNeverDecreases ==
    \A h \in DOMAIN agents : agents'[h].current_step >= agents[h].current_step

\* C9 as stated: in a streaming run current_step never exceeds the handle's
\* max_steps, for every integer max_steps, and never decreases.
C9_StepWithinMaxSteps ==
    /\ [](\A i \in Inv :
            InRun(i)
            => agents[The(agent[i])].current_step
                 <= agents[The(agent[i])].max_steps)
    /\ [][StepNeverDecreases]_vars

\* C9 amended: in a streaming run current_step never exceeds
\* max(max_steps, 0) (it is 0 when max_steps is negative), and never
\* decreases.
C9_StepWithinBudget ==
    /\ [](\A i \in Inv :
            InRun(i)
            => agents[The(agent[i])].current_step
                 <= Max(agents[The(agent[i])].max_steps, 0))
    /\ [][StepNeverDecreases]_vars

\* a run has ended with current_step at its max_steps of MaxSteps
C9_Witness ==
    \E i \in Inv :
        /\ Done(i) /\ agent[i] # None
        /\ agents[The(agent[i])].max_steps = MaxSteps
        /\ agents[The(agent[i])].current_step = MaxSteps

\* C10: an invocation constructs at most one agent, exactly one once it has a
\* handle; the handles of two invocations differ; a handle is used only by
\* the invocation that constructed it; and a step of one invocation changes
\* no field of another invocation's handle.
C10_OneHandlePerInvocation ==
    /\ [](\A i \in Inv :
            /\ calls[i].ctor <= 1
            /\ pc[i] \notin {"absent", "start", "gen_new"} => calls[i].ctor = 1
            /\ agent[i] # None
               => /\ calls[i].ctor = 1
                  /\ touched[The(agent[i])] = {i}
                  /\ \A j \in Inv \ {i} : agent[j] # agent[i])
    /\ [](Len(agents) = Cardinality({i \in Inv : agent[i] # None}))
    /\ [][\A h \in DOMAIN agents :
            agents'[h] # agents[h]
            => \E i \in Inv : pc'[i] # pc[i] /\ agent[i] = Some(h)]_vars

\* two streaming invocations have both run a step, each on its own handle
C10_Witness ==
    /\ \A i \in Inv : Done(i) /\ calls[i].think > 0 /\ agent[i] # None
    /\ agent[1] # agent[2]
    /\ args[1].entry = "execute" /\ args[2].entry = "execute"

\* C11: an execute whose prompt is empty fails with a parameter-validation
\* error returned as a result, before any agent work: once it has left its
\* entry it has an error result, has constructed no handle and has called
\* none of Manus(), run(), think() and act().
C11_EmptyPromptRejected ==
    \A i \in Inv :
        /\ args[i].entry = "execute" /\ args[i].prompt = ""
        /\ pc[i] \notin {"absent", "start"}
        => /\ result[i].kind = "error"
           /\ agent[i] = None
           /\ calls[i] = NoCalls

\* act() has returned in the current step of invocation i, and the generator
\* has summarized its result (result_str) and yielded the event about it
Summarized(i) ==
    /\ pc[i] = "at_act_event" /\ outcomes[i] # <<>>
    /\ \/ Last(outcomes[i]).op = "summary"
       \/ Last(outcomes[i]).op = "act" /\ ~Last(outcomes[i]).raised

\* C12: the summarizer returns a string for every input and never raises:
\* whenever act() has returned, the summary of its result was computed (no
\* exception left _extract_summary_from_result), and it is the text of the
\* step's `acting` event.
C12_SummarizerTotal ==
    \A i \in Inv :
        Summarized(i)
        => /\ Last(outcomes[i]).op # "summary"
           /\ ExtractSummary(result_str[i]).exc = ""
           /\ Last(events[i]).status = "acting"
           /\ Last(events[i]).text = ExtractSummary(result_str[i]).val

\* The markers of the summarizer's first rule.  The source has no such rule
\* and names no marker; these stand for the fixed sets the rule speaks of.
FinalThoughtMarkers == {"Final thought:", "Thought:"}
TerminationMarkers == {"Terminate", "Step "}

\* the positions at which needle occurs in hay
Occurrences(hay, needle) ==
    {p \in 1..(Len(hay) - Len(needle) + 1) :
        SubSeq(hay, p, p + Len(needle) - 1) = needle}

\* the last occurrence of a final-thought marker: where the text after it
\* starts
AfterLastThought(raw) ==
    LET hits == UNION {{[at |-> p, next |-> p + Len(m)] :
                           p \in Occurrences(raw, m)} :
                       m \in FinalThoughtMarkers}
        last == CHOOSE x \in hits : \A y \in hits : y.at <= x.at
    IN  last.next

\* the earliest occurrence of a termination marker at or after position from
TerminationsFrom(raw, from) ==
    {p \in UNION {Occurrences(raw, m) : m \in TerminationMarkers} : p >= from}

\* raw has a final-thought marker, and a termination marker later
HasMarkers(raw) ==
    /\ \E m \in FinalThoughtMarkers : Occurrences(raw, m) # {}
    /\ TerminationsFrom(raw, AfterLastThought(raw)) # {}

\* str.strip() of spaces
RECURSIVE Trim(_)
Trim(s) ==
    IF s = "" THEN s
    ELSE IF SubSeq(s, 1, 1) = " " THEN Trim(SubSeq(s, 2, Len(s)))
    ELSE IF SubSeq(s, Len(s), Len(s)) = " " THEN Trim(SubSeq(s, 1, Len(s) - 1))
    ELSE s

\* the trimmed text between the last final-thought marker and the earliest
\* termination marker after it
BetweenMarkers(raw) ==
    LET from == AfterLastThought(raw)
        stops == TerminationsFrom(raw, from)
        to == CHOOSE p \in stops : \A q \in stops : p <= q
    IN  Trim(SubSeq(raw, from, to - 1))

\* C13: for a raw result with a final-thought marker followed later by a
\* termination marker, the summary is exactly the trimmed text between the
\* last final-thought marker and the earliest termination marker after it,
\* whatever its length and whether or not the raw result is JSON.
C13_TextBetweenMarkers ==
    \A i \in Inv :
        Summarized(i) /\ HasMarkers(result_str[i])
        => /\ Last(events[i]).status = "acting"
           /\ Last(events[i]).text = BetweenMarkers(result_str[i])

\* raw parses to a mapping (a JSON object)
IsJsonObject(raw) == IsJson(raw) /\ Loads(raw).t = "obj"

\* the keys of the summary for extracted page content (line 108)
ExtractedKeys == {"interactive_elements", "available_flights", "flight_search"}

\* "Result: " and the input, cut to its first 150 characters and "..." when
\* it is longer
ResultOf150(raw) ==
    "Result: " \o (IF Len(raw) <= 150 THEN raw ELSE SubSeq(raw, 1, 150) \o "...")

\* C14 as stated: for a JSON object without thought markers and without
\* flight_search_details, the summary is "Result: " and the input, cut to 150
\* characters and "..." when it is longer.
C14_ResultOfAnyObject ==
    \A i \in Inv :
        /\ Summarized(i) /\ IsJsonObject(result_str[i])
        /\ ~HasMarkers(result_str[i])
        /\ ~HasKey(Loads(result_str[i]), "flight_search_details")
        => /\ Last(events[i]).status = "acting"
           /\ Last(events[i]).text = ResultOf150(result_str[i])

\* C14 amended: the same for a JSON object that has, besides, none of the
\* keys interactive_elements, available_flights and flight_search.
C14_ResultOfPlainObject ==
    \A i \in Inv :
        /\ Summarized(i) /\ IsJsonObject(result_str[i])
        /\ ~HasMarkers(result_str[i])
        /\ ~HasKey(Loads(result_str[i]), "flight_search_details")
        /\ \A key \in ExtractedKeys : ~HasKey(Loads(result_str[i]), key)
        => /\ Last(events[i]).status = "acting"
           /\ Last(events[i]).text = ResultOf150(result_str[i])

\* the summary of a plain JSON object of more than 150 characters is out
C14_Witness ==
    \E i \in Inv :
        /\ Summarized(i) /\ IsJsonObject(result_str[i])
        /\ ~HasKey(Loads(result_str[i]), "flight_search_details")
        /\ \A key \in ExtractedKeys : ~HasKey(Loads(result_str[i]), key)
        /\ Len(result_str[i]) = 151
        /\ Len(Last(events[i]).text) = 8 + 150 + 3

\* the calls of op by invocation i at step n that have ended
CallsAt(i, op, n) ==
    {k \in 1..Len(outcomes[i]) :
        outcomes[i][k].op = op /\ outcomes[i][k].step = n}

\* C15: whatever the log holds, a step in which think() returned true calls
\* act() exactly once, after the step's `thinking` event and before the next
\* step begins, and a step in which think() returned false does not call it:
\* act() is awaited only right after the `thinking` event of its step, and
\* when the step is over act() has ended once or not at all, as should_act
\* says.
C15_ActIffThinkSaysSo ==
    \A i \in Inv :
        LET n == agents[The(agent[i])].current_step
        IN  /\ pc[i] = "await_act"
               => /\ Last(events[i]).status = "thinking"
                  /\ Last(events[i]).step = Some(n)
                  /\ CallsAt(i, "act", n) = {}
            /\ /\ pc[i] = "sleeping"
               /\ \E k \in CallsAt(i, "think", n) : ~outcomes[i][k].raised
               => Cardinality(CallsAt(i, "act", n))
                    = IF should_act[i] THEN 1 ELSE 0

\* C16: once the handle's state is finished, no step of the run increments
\* current_step, calls think() or leaves state other than finished; and
\* after the init no step sets state to running.
C16_NoStepAfterFinished ==
    [][\A i \in Inv :
          agent[i] # None =>
             LET h == The(agent[i])
             IN  /\ agents[h].state = "finished"
                    => /\ agents'[h].current_step = agents[h].current_step
                       /\ calls'[i].think = calls[i].think
                       /\ agents'[h].state = "finished"
                 /\ pc[i] # "gen_new" /\ agents'[h].state = "running"
                    => agents[h].state = "running"]_vars

\* a run has ended after its first step, in which think() set state to
\* finished and nothing raised, with a budget of MaxSteps steps
C16_Witness ==
    \E i \in Inv :
        /\ Done(i) /\ agent[i] # None /\ Raised(i, {"think", "act", "preview"}) = {}
        /\ \E k \in CallsAt(i, "think", 1) : outcomes[i][k].finished
        /\ agents[The(agent[i])].current_step = 1
        /\ agents[The(agent[i])].max_steps = MaxSteps
        /\ calls[i].think = 1

\* the events of invocation i that are about a step: `thinking`, `acting`
\* and the error events that carry a step
StepEvents(i) ==
    {k \in 1..Len(events[i]) :
        \/ events[i][k].status \in {"thinking", "acting"}
        \/ events[i][k].status = "error" /\ events[i][k].step # None}

\* C17: in a streaming run whose init succeeded, `started` is the first
\* event and the only one of its kind; the steps of the thinking, acting and
\* error events lie in 1..max_steps and do not decrease; a step has at most
\* one `thinking` and at most one `acting` event; and the `acting` event of a
\* step comes after the `thinking` event of that step.
C17_EventOrder ==
    \A i \in Inv :
        events[i] # <<>> /\ Raised(i, {"ctor", "init"}) = {}
        => LET evs == events[i]
           IN  /\ evs[1].status = "started"
               /\ \A k \in 2..Len(evs) : evs[k].status # "started"
               /\ \A k \in StepEvents(i) : The(evs[k].step) \in 1..Budget(i)
               /\ \A j, k \in StepEvents(i) :
                     j < k => The(evs[j].step) <= The(evs[k].step)
               /\ \A n \in 1..Budget(i) :
                     /\ Cardinality(EventsAt(i, "thinking", n)) <= 1
                     /\ Cardinality(EventsAt(i, "acting", n)) <= 1
                     /\ \A k \in EventsAt(i, "acting", n) :
                           \E j \in EventsAt(i, "thinking", n) : j < k

\* a run of two steps has ended, each step with its `thinking` and then its
\* `acting` event
C17_Witness ==
    \E i \in Inv :
        /\ Done(i) /\ Len(events[i]) = 6
        /\ [k \in 1..6 |-> events[i][k].status]
             = <<"started", "thinking", "acting", "thinking", "acting", "complete">>
        /\ [k \in 2..5 |-> events[i][k].step]
             = [k \in 2..5 |-> Some(k \div 2)]

\* C18: the action log has at most one entry per step begun, in increasing
\* step order; and the `complete` event carries as total_steps the handle's
\* current_step, which is the number of think() calls of the run, and as
\* steps_summary the last min(3, k) entries of the k-entry action log, in
\* their order.
C18_CompleteCarriesLogTail ==
    \A i \in Inv :
        InRun(i) =>
            LET a == agents[The(agent[i])]
                log == actions_summary[i]
                k == Len(log)
                m == IF k < 3 THEN k ELSE 3
            IN  /\ k <= a.current_step
                /\ \A j \in 1..k : \E n \in 1..a.current_step : j \in LogEntriesOf(i, n)
                /\ \A n \in 1..a.current_step :
                      /\ Cardinality(LogEntriesOf(i, n)) <= 1
                      /\ \A n2 \in (n + 1)..a.current_step :
                            \A j \in LogEntriesOf(i, n), j2 \in LogEntriesOf(i, n2) :
                                j < j2
                /\ IsComplete(Last(events[i]))
                   => /\ Last(events[i]).total_steps = Some(a.current_step)
                      /\ a.current_step = calls[i].think
                      /\ Last(events[i]).steps_summary
                           = [j \in 1..m |-> log[k - m + j]]

\* a run has ended with more than three entries in its action log, the last
\* three of them in its `complete` event
C18_Witness ==
    \E i \in Inv :
        /\ Done(i) /\ IsComplete(Last(events[i]))
        /\ Len(actions_summary[i]) > 3
        /\ Len(Last(events[i]).steps_summary) = 3
        /\ Last(events[i]).steps_summary[3] = Last(actions_summary[i])
        /\ calls[i].think > 3

\* the generator of invocation i is suspended at a yield, its event handed
\* to the consumer, and the event is not the last one of the run
AtYield(i) ==
    pc[i] \in {"at_started", "at_thinking", "at_act_event", "at_step_error"}

\* a step of invocation i that is not an __anext__ of its consumer
DriverStep(i) == Step(i) /\ pulls' = pulls

\* C19 as stated: the driver's progress does not depend on its consumer:
\* after an event that is not the last one of the run, the driver can go on
\* (to the next think() or act()) without the consumer asking for more.
C19_DriverRunsAhead ==
    \A i \in Inv : AtYield(i) => ENABLED DriverStep(i)

\* C19 amended: the driver runs only on its consumer's demand.  It has never
\* yielded more events than the consumer has asked for; and from a yield
\* nothing of the run changes (no think(), no act(), no event, no field of
\* the handle) but by an __anext__ of the consumer.
C19_DriverRunsOnDemand ==
    /\ [](\A i \in Inv :
            /\ Len(events[i]) <= pulls[i]
            /\ AtYield(i) => Len(events[i]) = pulls[i])
    /\ [][\A i \in Inv :
            (AtYield(i) \/ pc[i] = "gen_new") /\ pulls'[i] = pulls[i]
            => /\ pc'[i] = pc[i] /\ calls'[i] = calls[i]
               /\ events'[i] = events[i]
               /\ agent[i] # None
                  => agents'[The(agent[i])] = agents[The(agent[i])]]_vars

\* the generator is suspended at the `thinking` event of a step in which
\* think() said to act: act() has not been called and waits for the consumer
C19_Witness ==
    \E i \in Inv :
        /\ pc[i] = "at_thinking" /\ should_act[i]
        /\ calls[i].think = 1 /\ calls[i].act = 0
        /\ Len(events[i]) = 2 /\ pulls[i] = 2

\* the steps of invocation i in which act(), or the summary of its result,
\* raised
FailedActSteps(i) == {outcomes[i][k].step : k \in Raised(i, {"act", "summary"})}

\* C20: when act() or the summary of its result raises at step n, the driver
\* yields one error event with step n and changes nothing else: the action
\* log, current_step and max_steps stay as they are, and state as act() left
\* it, also when the generator is resumed from that event; so the log, and
\* the steps_summary of `complete`, never hold an entry about such a step.
C20_ActFailureOnlyEmits ==
    /\ [][\A i \in Inv :
            agent[i] # None =>
               LET h == The(agent[i])
                   n == agents[h].current_step
               IN  /\ /\ pc[i] = "await_act" /\ pc'[i] = "at_act_event"
                      /\ Last(events'[i]).status = "error"
                      => /\ Len(events'[i]) = Len(events[i]) + 1
                         /\ SubSeq(events'[i], 1, Len(events[i])) = events[i]
                         /\ Last(events'[i]).step = Some(n)
                         /\ actions_summary'[i] = actions_summary[i]
                         /\ agents'[h].current_step = n
                         /\ agents'[h].max_steps = agents[h].max_steps
                         /\ agents'[h].state # agents[h].state
                            => \E k \in CallsAt(i, "act", n)' :
                                  outcomes'[i][k].finished
                   /\ /\ pc[i] = "at_act_event" /\ pc'[i] # pc[i]
                      /\ Last(events[i]).status = "error"
                      => /\ events'[i] = events[i]
                         /\ actions_summary'[i] = actions_summary[i]
                         /\ agents'[h] = agents[h]]_vars
    /\ [](\A i \in Inv : \A n \in FailedActSteps(i) :
            /\ LogEntriesOf(i, n) = {}
            /\ Cardinality(EventsAt(i, "error", n)) = 1
            /\ IsComplete(Last(events[i]))
               => \A j \in 1..Len(Last(events[i]).steps_summary) :
                     LET head == "Step " \o IntStr(n) \o ": "
                     IN  Prefix(Last(events[i]).steps_summary[j], Len(head)) # head)

\* a run of two steps has ended with `complete`: act() raised in its first
\* step and returned in its second, which alone is in steps_summary
C20_Witness ==
    \E i \in Inv :
        /\ Done(i) /\ IsComplete(Last(events[i]))
        /\ 1 \in ActFailures(i)
        /\ Last(events[i]).total_steps = Some(2)
        /\ Len(Last(events[i]).steps_summary) = 1
        /\ LogEntriesOf(i, 2) = {1}
        /\ \E k \in CallsAt(i, "act", 2) : ~outcomes[i][k].raised
        /\ Raised(i, {"think", "preview", "summary"}) = {}

=============================================================================
